---- MODULE Spec2Model ----
(***************************************************************************)
(* A model of spring-visualizer's annotation value grammar                 *)
(* (src/src/annotation.rs), class metadata extractor (src/src/class.rs,    *)
(* src/src/bean.rs) and driver (src/src/main.rs).  Texts are TLA+ strings, *)
(* read character by character                                             *)
(* exactly as the nom combinators and the str methods of the source read   *)
(* them.  A parser's result is the record [st, rest, out]: st is "Ok",     *)
(* "Error" (nom::Err::Error, which many0 and separated_list0 swallow) or   *)
(* "Failure" (nom::Err::Failure, which they propagate).                    *)
(***************************************************************************)
EXTENDS Naturals, Sequences, FiniteSets, TLC

VARIABLES
    shape,    \* the structure the input text was written from
    input,    \* the text handed to the parser
    called,   \* the parser applied to input, "none" before the call
    result,   \* what the parser returned
    pc,       \* where main stands: "idle" when the text is not a tree to walk
    next,     \* the place, in the walk, of the file main handles next
    events    \* the files read and the lines printed by main, in order

vars == <<shape, input, called, result, pc, next, events>>

-----------------------------------------------------------------------------
(* Characters and the str methods of the source.                           *)

Letters ==
    {"a","b","c","d","e","f","g","h","i","j","k","l","m","n","o","p","q","r",
     "s","t","u","v","w","x","y","z","A","B","C","D","E","F","G","H","I","J",
     "K","L","M","N","O","P","Q","R","S","T","U","V","W","X","Y","Z"}

Digits == {"0","1","2","3","4","5","6","7","8","9"}

\* char::is_alphanumeric, and nom's alphanumeric1, on the ASCII texts modelled.
is_alphanumeric == Letters \cup Digits

\* nom space0: spaces and tabs.
space0_chars == {" ", "\t"}

\* nom multispace0, and the White_Space of str::trim, on the texts modelled.
multispace0_chars == {" ", "\t", "\r", "\n"}

Ch(s, i) == SubSeq(s, i, i)

Take(s, n) == SubSeq(s, 1, n)

Drop(s, n) == SubSeq(s, n + 1, Len(s))

\* str::starts_with, and the test nom's tag and char make.
starts_with(s, p) == Len(s) >= Len(p) /\ Take(s, Len(p)) = p

\* The least element of a non-empty set of numbers.
Min(S) == CHOOSE x \in S : \A y \in S : x <= y

\* The places where p occurs in s.
Occurrences(s, p) ==
    {i \in 1..(Len(s) + 1) : i + Len(p) - 1 <= Len(s) /\ SubSeq(s, i, i + Len(p) - 1) = p}

\* str::find: the 1-based place of the first occurrence of p in s, 0 for None.
find(s, p) == IF Occurrences(s, p) = {} THEN 0 ELSE Min(Occurrences(s, p))

\* str::contains
contains(s, p) == find(s, p) # 0

\* The places of s, from n + 1 on, where the run ends: a character in cs when
\* member is FALSE, outside cs when member is TRUE.
RunEnds(s, cs, member, n) ==
    {k \in (n + 1)..Len(s) : (Ch(s, k) \in cs) # member}

\* The length of the longest prefix of s, from n characters on, whose
\* characters are all in cs (member = TRUE) or all outside cs (member = FALSE).
SpanLen(s, cs, member, n) ==
    IF RunEnds(s, cs, member, n) = {} THEN Len(s)
    ELSE Min(RunEnds(s, cs, member, n)) - 1

\* str::trim_start
trim_start(s) == Drop(s, SpanLen(s, multispace0_chars, TRUE, 0))

RECURSIVE trim_end(_)
trim_end(s) ==
    IF Len(s) > 0 /\ Ch(s, Len(s)) \in multispace0_chars
    THEN trim_end(Take(s, Len(s) - 1))
    ELSE s

\* str::trim
trim(s) == trim_end(trim_start(s))

-----------------------------------------------------------------------------
(* nom's results and the combinators the source uses.                      *)

Ok(rest, out) == [st |-> "Ok", rest |-> rest, out |-> out]

Error(at) == [st |-> "Error", rest |-> at, out |-> <<>>]

Failure(at) == [st |-> "Failure", rest |-> at, out |-> <<>>]

\* take_while(|c| c in cs): never fails, may take nothing.
take_while(cs, i) ==
    LET n == SpanLen(i, cs, TRUE, 0) IN Ok(Drop(i, n), Take(i, n))

\* take_while(|c| c != stop)
take_while_not(stop, i) ==
    LET n == SpanLen(i, {stop}, FALSE, 0) IN Ok(Drop(i, n), Take(i, n))

\* alphanumeric1: at least one character.
alphanumeric1(i) ==
    LET n == SpanLen(i, is_alphanumeric, TRUE, 0)
    IN  IF n = 0 THEN Error(i) ELSE Ok(Drop(i, n), Take(i, n))

space0(i) == Drop(i, SpanLen(i, space0_chars, TRUE, 0))

multispace0(i) == Drop(i, SpanLen(i, multispace0_chars, TRUE, 0))

\* tag(t), char(c)
tag(t, i) == IF starts_with(i, t) THEN Ok(Drop(i, Len(t)), t) ELSE Error(i)

\* opt(tag(t)): the input after an optional t.
opt_tag(t, i) == IF starts_with(i, t) THEN Drop(i, Len(t)) ELSE i

\* take_until(p): everything before the first p; an error when p never occurs.
take_until(p, i) ==
    LET pos == find(i, p)
    IN  IF pos = 0 THEN Error(i) ELSE Ok(Drop(i, pos - 1), Take(i, pos - 1))

\* delimited(tag(open), is_not(stop), char(close)): is_not takes at least one
\* character, so an empty body between the delimiters is an error.
delimited(open, stop, close, i) ==
    IF ~starts_with(i, open) THEN Error(i)
    ELSE LET i1 == Drop(i, Len(open))
             n  == SpanLen(i1, {stop}, FALSE, 0)
             i2 == Drop(i1, n)
         IN  IF n = 0 THEN Error(i1)
             ELSE IF ~starts_with(i2, close) THEN Error(i2)
             ELSE Ok(Drop(i2, Len(close)), Take(i1, n))

\* The ? operator: a result that is not Ok is returned as it is, an Ok result
\* is handed on.
AndThen(r, F(_)) == IF r.st # "Ok" THEN r ELSE F(r)

\* What many0 and separated_list0 do with a step's result: a step that is not
\* Ok ends the repetition with the result so far.
OrStop(r, sofar, F(_)) == IF r.st # "Ok" THEN sofar ELSE F(r)

\* let x = ...;
With(x, F(_)) == F(x)

-----------------------------------------------------------------------------
(* annotation.rs: the value grammar.                                       *)

\* enum AnnotationArg
StringArg(s) == [tag |-> "String", s |-> s, items |-> <<>>]

ClassArg(s) == [tag |-> "Class", s |-> s, items |-> <<>>]

ArrayArg(vs) == [tag |-> "Array", s |-> "", items |-> vs]

\* The separator closure of separated_list0: tag(",") then space0.
arg_separator(i) == AndThen(tag(",", i), LAMBDA c : Ok(space0(c.rest), <<>>))

RECURSIVE parse_arg(_)
RECURSIVE separated_list0_loop(_, _)

\* The loop of nom's separated_list0 after the first element: a failing
\* separator or a failing element ends the list where the last element ended.
separated_list0_loop(i, res) ==
    OrStop(arg_separator(i), Ok(i, res), LAMBDA s :
        OrStop(parse_arg(s.rest), Ok(i, res), LAMBDA e :
            separated_list0_loop(e.rest, Append(res, e.out))))

separated_list0(i) ==
    OrStop(parse_arg(i), Ok(i, <<>>), LAMBDA first :
        separated_list0_loop(first.rest, <<first.out>>))

parse_arg(i) ==
    IF starts_with(i, "\"")
    THEN AndThen(delimited("\"", "\"", "\"", i), LAMBDA r :
             Ok(r.rest, StringArg(r.out)))
    ELSE IF starts_with(i, "{")
    THEN AndThen(delimited("{", "}", "}", i), LAMBDA r :
             AndThen(separated_list0(trim_start(r.out)), LAMBDA l :
                 Ok(r.rest, ArrayArg(l.out))))
    ELSE AndThen(take_until(".class", i), LAMBDA r :
             AndThen(tag(".class", r.rest), LAMBDA t :
                 Ok(t.rest, ClassArg(r.out))))

\* HashMap<String, AnnotationArg> as the set of its entries [k, v], one per key.
hashmap_new == {}

\* HashMap::insert: a key already present is rebound.
hashmap_insert(m, k, v) == {e \in m : e.k # k} \cup {[k |-> k, v |-> v]}

hashmap_contains(m, k) == \E e \in m : e.k = k

\* HashMap::get, where the key is present.
hashmap_get(m, k) == (CHOOSE e \in m : e.k = k).v

\* key_value_pairs.into_iter().collect(): the pairs inserted in order.
RECURSIVE hashmap_collect(_, _)
hashmap_collect(pairs, m) ==
    IF pairs = <<>> THEN m
    ELSE hashmap_collect(Tail(pairs), hashmap_insert(m, Head(pairs).k, Head(pairs).v))

\* The closure many0 repeats in parse_key_value_pairs: key, space0, "=",
\* space0, one value, an optional comma, space0.
key_value_pair(i) ==
    With(take_while(is_alphanumeric, i), LAMBDA key :
        AndThen(tag("=", space0(key.rest)), LAMBDA eq :
            AndThen(parse_arg(space0(eq.rest)), LAMBDA v :
                Ok(space0(opt_tag(",", v.rest)), [k |-> key.out, v |-> v.out]))))

\* many0(key_value_pair): the first pair that fails ends the repetition, and
\* many0 returns what it has with the input where that pair began.
RECURSIVE many0_key_value_pair(_, _)
many0_key_value_pair(i, acc) ==
    OrStop(key_value_pair(i), Ok(i, acc), LAMBDA r :
        many0_key_value_pair(r.rest, Append(acc, r.out)))

parse_key_value_pairs(i) ==
    AndThen(many0_key_value_pair(i, <<>>), LAMBDA r :
        Ok(r.rest, hashmap_collect(r.out, hashmap_new)))

\* enum AnnotationArgs
Single(v) == [kind |-> "Single", v |-> v, m |-> hashmap_new]

Multi(m) == [kind |-> "Multi", v |-> ArrayArg(<<>>), m |-> m]

\* parse_args looking for "=" only outside a leading string literal: C6
\* tells it from parse_args.
parse_args_outside_literal(i) ==
    IF contains(i, "=") /\ ~starts_with(i, "\"")
    THEN AndThen(parse_key_value_pairs(i), LAMBDA r : Ok(r.rest, Multi(r.out)))
    ELSE AndThen(parse_arg(i), LAMBDA r : Ok(r.rest, Single(r.out)))

parse_args(i) ==
    IF contains(i, "=")
    THEN AndThen(parse_key_value_pairs(i), LAMBDA r : Ok(r.rest, Multi(r.out)))
    ELSE AndThen(parse_arg(i), LAMBDA r : Ok(r.rest, Single(r.out)))

-----------------------------------------------------------------------------
(* annotation.rs: the annotation scanner.                                  *)

\* struct Annotation
Annotation(name, args) == [name |-> name, args |-> args]

\* Annotation::value as an Option: <<>> is None, <<v>> is Some(v).
value(a) ==
    IF a.args.kind = "Single" THEN <<a.args.v>>
    ELSE IF hashmap_contains(a.args.m, "value")
    THEN <<hashmap_get(a.args.m, "value")>>
    ELSE <<>>

\* The arguments of parse_annotation: the text between "(" and the next ")"
\* goes to parse_args; without parentheses the arguments are an empty Multi.
annotation_args(name, i) ==
    IF starts_with(i, "(")
    THEN AndThen(delimited("(", ")", ")", i), LAMBDA between :
             AndThen(parse_args(between.out), LAMBDA args :
                 Ok(multispace0(between.rest), Annotation(name, args.out))))
    ELSE Ok(i, Annotation(name, Multi(hashmap_new)))

parse_annotation(i) ==
    AndThen(tag("@", i), LAMBDA at :
        With(take_while(is_alphanumeric, at.rest), LAMBDA name :
            annotation_args(name.out, multispace0(name.rest))))

\* parse_annotations_loop ending at the first annotation that cannot be read
\* and returning those read before it: C23 tells it from
\* parse_annotations_loop.
RECURSIVE parse_annotations_loop_lenient(_, _)
parse_annotations_loop_lenient(i, annotations) ==
    IF ~contains(i, "@") THEN Ok(i, annotations)
    ELSE OrStop(parse_annotation(Drop(i, find(i, "@") - 1)),
                Ok(i, annotations), LAMBDA r :
             parse_annotations_loop_lenient(r.rest, Append(annotations, r.out)))

\* parse_annotations: while the input holds an "@", parse the annotation there.
RECURSIVE parse_annotations_loop(_, _)
parse_annotations_loop(i, annotations) ==
    IF ~contains(i, "@") THEN Ok(i, annotations)
    ELSE AndThen(parse_annotation(Drop(i, find(i, "@") - 1)), LAMBDA r :
             parse_annotations_loop(r.rest, Append(annotations, r.out)))

parse_annotations(i) == parse_annotations_loop(i, <<>>)

\* many0(parse_annotation), as parse_class applies it: the first annotation
\* that fails ends the run, and the run read so far is returned.
RECURSIVE many0_parse_annotation(_, _)
many0_parse_annotation(i, acc) ==
    OrStop(parse_annotation(i), Ok(i, acc), LAMBDA r :
        many0_parse_annotation(r.rest, Append(acc, r.out)))

-----------------------------------------------------------------------------
(* bean.rs: parameters and factory methods.                                *)

\* str::split(c): the pieces between the occurrences of c, at least one piece.
RECURSIVE split(_, _)
split(s, c) ==
    IF ~contains(s, c) THEN <<s>>
    ELSE <<Take(s, find(s, c) - 1)>> \o split(Drop(s, find(s, c)), c)

\* str::trim_start_matches(c) and str::trim_end_matches(c) for a character c.
trim_start_matches(s, c) == Drop(s, SpanLen(s, {c}, TRUE, 0))

RECURSIVE trim_end_matches(_, _)
trim_end_matches(s, c) ==
    IF Len(s) > 0 /\ Ch(s, Len(s)) = c
    THEN trim_end_matches(Take(s, Len(s) - 1), c)
    ELSE s

\* struct Parameter
Parameter(class, name) == [class |-> class, name |-> name]

\* Parameter::from_str, and the closure parse_bean filters its entries with:
\* trim, an alphanumeric run, whitespace, an alphanumeric run.  take_while and
\* multispace0 never fail, so the result is always Ok (an Option: <<p>>).
Parameter_from_str(s) ==
    With(take_while(is_alphanumeric, trim(s)), LAMBDA class :
        With(take_while(is_alphanumeric, multispace0(class.rest)), LAMBDA name :
            <<Parameter(class.out, name.out)>>))

\* .split(',').filter_map(|p| Parameter::from_str(p).ok()).collect()
RECURSIVE filter_map_parameters(_)
filter_map_parameters(entries) ==
    IF entries = <<>> THEN <<>>
    ELSE Parameter_from_str(Head(entries)) \o filter_map_parameters(Tail(entries))

\* The parameter list both parse_constructor and parse_bean build from the
\* text before the first ")".
parameter_list(text) ==
    With(trim(trim_end_matches(text, ")")), LAMBDA params :
        IF params # ""
        THEN filter_map_parameters(split(trim_end_matches(params, ")"), ","))
        ELSE <<>>)

\* struct Bean
Bean(class, name, parameters) ==
    [class |-> class, name |-> name, parameters |-> parameters]

\* overriden_name taking the value whatever its variant: C17 tells it from
\* overriden_name.
overriden_name_of_any(v) == IF v # <<>> THEN <<v[1].s>> ELSE <<>>

\* match annotation.value() { Some(AnnotationArg::String(name)) => Some(name), _ => None }
overriden_name(v) == IF v # <<>> /\ v[1].tag = "String" THEN <<v[1].s>> ELSE <<>>

\* overriden_name.unwrap_or_else(|| name.to_string())
unwrap_or(option, default) == IF option # <<>> THEN option[1] ELSE default

parse_bean(i) ==
    AndThen(parse_annotation(i), LAMBDA annotation :
      With(space0(opt_tag("private", opt_tag("protected",
                  opt_tag("public", annotation.rest)))), LAMBDA i1 :
        With(take_while(is_alphanumeric, i1), LAMBDA class :
          With(take_while(is_alphanumeric, multispace0(class.rest)), LAMBDA name :
            AndThen(tag("(", name.rest), LAMBDA paren :
              With(take_while_not(")", multispace0(paren.rest)), LAMBDA params :
                Ok(params.rest,
                   Bean(class.out,
                        unwrap_or(overriden_name(value(annotation.out)), name.out),
                        parameter_list(params.out)))))))))

-----------------------------------------------------------------------------
(* class.rs: the class metadata extractor.                                 *)

\* Autowired::new(class, name)
Autowired(class, name) == [class |-> class, name |-> name]

\* ClassBuilder::default(): package and name are Options with no default
\* (<<>> is unset), the other fields carry #[builder(default)].
ClassBuilder_default ==
    [package |-> <<>>, component_type |-> <<>>, imports |-> <<>>,
     component_scans |-> <<>>, name |-> <<>>, parameters |-> <<>>,
     autowires |-> <<>>, bean_defs |-> <<>>, interfaces |-> <<>>]

\* The elements of an Array value that carry the given tag, in order.
RECURSIVE args_with_tag(_, _)
args_with_tag(values, t) ==
    IF values = <<>> THEN <<>>
    ELSE (IF Head(values).tag = t THEN <<Head(values).s>> ELSE <<>>)
         \o args_with_tag(Tail(values), t)

\* match annotation.value() of the "Import" arm.
import_arm(b, v) ==
    IF v # <<>> /\ v[1].tag = "Class"
    THEN [b EXCEPT !.imports = <<v[1].s>>]
    ELSE IF v # <<>> /\ v[1].tag = "Array"
    THEN [b EXCEPT !.imports = args_with_tag(v[1].items, "Class")]
    ELSE b

\* match annotation.value() of the "ComponentScan" arm.
component_scan_arm(b, v, package) ==
    IF v # <<>> /\ v[1].tag = "String"
    THEN [b EXCEPT !.component_scans = <<v[1].s>>]
    ELSE IF v # <<>> /\ v[1].tag = "Array" /\ v[1].items = <<>>
    THEN [b EXCEPT !.component_scans = <<package>>]
    ELSE IF v # <<>> /\ v[1].tag = "Array"
    THEN [b EXCEPT !.component_scans = args_with_tag(v[1].items, "String")]
    ELSE b

\* The first match of the annotation loop: imports and component scans.  Each
\* builder setter replaces the field.
set_imports_and_scans(b, a, package) ==
    IF a.name = "Import" THEN import_arm(b, value(a))
    ELSE IF a.name = "SpringBootApplication"
    THEN [b EXCEPT !.component_scans = <<package>>]
    ELSE IF a.name = "ComponentScan" THEN component_scan_arm(b, value(a), package)
    ELSE b

\* The second match of the annotation loop: the component type.
set_component_type(b, a) ==
    IF a.name = "SpringBootApplication"
    THEN [b EXCEPT !.component_type = <<"SpringBootApplication">>]
    ELSE IF a.name = "Configuration"
    THEN [b EXCEPT !.component_type = <<"Configuration">>]
    ELSE IF a.name = "Controller"
    THEN [b EXCEPT !.component_type = <<"Controller">>]
    ELSE IF a.name = "RestController"
    THEN [b EXCEPT !.component_type = <<"Controller">>]
    ELSE IF a.name = "Service"
    THEN [b EXCEPT !.component_type = <<"Service">>]
    ELSE IF a.name = "Repository"
    THEN [b EXCEPT !.component_type = <<"Repository">>]
    ELSE IF a.name = "Component"
    THEN [b EXCEPT !.component_type = <<"Component">>]
    ELSE b

\* for annotation in annotations { ... }
RECURSIVE apply_annotations(_, _, _)
apply_annotations(b, annotations, package) ==
    IF annotations = <<>> THEN b
    ELSE apply_annotations(
             set_component_type(
                 set_imports_and_scans(b, Head(annotations), package),
                 Head(annotations)),
             Tail(annotations), package)

\* The package declaration: "package" is searched for, and the text between
\* the keyword and the next ";" is trimmed.  The result holds the package and
\* the text after the ";".
package_declaration(i) ==
    IF ~contains(i, "package") THEN Failure(i)
    ELSE AndThen(delimited("package", ";", ";", Drop(i, find(i, "package") - 1)),
                 LAMBDA r : Ok(r.rest, trim(r.out)))

\* The class level annotations: when the text after the package declaration
\* holds an "@" anywhere, many0(parse_annotation) runs from the first one.
class_level_annotations(i) ==
    IF ~contains(i, "@") THEN Ok(i, <<>>)
    ELSE many0_parse_annotation(Drop(i, find(i, "@") - 1), <<>>)

\* class_name taking a missing "class" for a class without a name: C2 tells
\* it from class_name.
class_name_or_empty(i) ==
    IF ~contains(i, "class") THEN Ok(i, "")
    ELSE take_while(is_alphanumeric,
                    multispace0(Drop(i, find(i, "class") - 1 + Len("class"))))

\* The class name: the alphanumeric run after the first "class" and the
\* whitespace behind it.
class_name(i) ==
    IF ~contains(i, "class") THEN Failure(i)
    ELSE take_while(is_alphanumeric,
                    multispace0(Drop(i, find(i, "class") - 1 + Len("class"))))

\* The interfaces: the alphanumeric run after "implements", split on ",",
\* each piece trimmed.
interfaces_after(i) ==
    With(split(take_while(is_alphanumeric, multispace0(i)).out, ","), LAMBDA parts :
        [k \in 1..Len(parts) |-> trim(parts[k])])

\* if let Some(pos) = input.find("implements") { ... }
set_interfaces(b, i) ==
    IF ~contains(i, "implements") THEN b
    ELSE [b EXCEPT !.interfaces =
              interfaces_after(Drop(i, find(i, "implements") - 1 + Len("implements")))]

\* parse_constructor as an Option: <<>> is None, <<params>> is Some(params).
parse_constructor(name, body) ==
    IF ~contains(body, name \o "(") THEN <<>>
    ELSE <<parameter_list(
             take_while_not(")",
                 trim_start_matches(
                     Drop(body, find(body, name \o "(") - 1 + Len(name)), "(")).out)>>

\* if let Some(parameters) = parameters { class_builder.parameters(parameters); }
set_parameters(b, parameters) ==
    IF parameters # <<>> THEN [b EXCEPT !.parameters = parameters[1]] ELSE b

\* skip_markers skipping nothing: C21 tells it from skip_markers.
skip_markers_none(i) == i

\* many0(delimited(multispace0, parse_annotation, multispace0)): the input
\* after the markers that follow "@Autowired".
RECURSIVE skip_markers(_)
skip_markers(i) ==
    OrStop(parse_annotation(multispace0(i)), i, LAMBDA r :
        skip_markers(multispace0(r.rest)))

\* parse_autowired with the two identifiers taken in the other order: C1
\* tells it from parse_autowired.
parse_autowired_swapped(i) ==
    AndThen(tag("@Autowired", i), LAMBDA t :
        AndThen(alphanumeric1(multispace0(skip_markers(t.rest))), LAMBDA class :
            AndThen(alphanumeric1(multispace0(class.rest)), LAMBDA name :
                Ok(opt_tag(";", name.rest), Autowired(name.out, class.out)))))

\* One occurrence: delimited(tag("@Autowired"), markers type name, opt(';')).
parse_autowired(i) ==
    AndThen(tag("@Autowired", i), LAMBDA t :
        AndThen(alphanumeric1(multispace0(skip_markers(t.rest))), LAMBDA class :
            AndThen(alphanumeric1(multispace0(class.rest)), LAMBDA name :
                Ok(opt_tag(";", name.rest), Autowired(class.out, name.out)))))

\* autowires_loop ending at the first occurrence that cannot be read and
\* keeping the autowires read before it: C18 tells it from autowires_loop.
RECURSIVE autowires_loop_lenient(_, _)
autowires_loop_lenient(i, autowires) ==
    IF ~contains(i, "@Autowired") THEN Ok(i, autowires)
    ELSE OrStop(parse_autowired(Drop(i, find(i, "@Autowired") - 1)),
                Ok(i, autowires), LAMBDA r :
             autowires_loop_lenient(r.rest, Append(autowires, r.out)))

\* while let Some(pos) = autowire_start.find("@Autowired") { ... }
RECURSIVE autowires_loop(_, _)
autowires_loop(i, autowires) ==
    IF ~contains(i, "@Autowired") THEN Ok(i, autowires)
    ELSE AndThen(parse_autowired(Drop(i, find(i, "@Autowired") - 1)), LAMBDA r :
             autowires_loop(r.rest, Append(autowires, r.out)))

\* while let Some(pos) = beans_start.find("@Bean") { ... }
RECURSIVE beans_loop(_, _)
beans_loop(i, beans) ==
    IF ~contains(i, "@Bean") THEN Ok(i, beans)
    ELSE AndThen(parse_bean(Drop(i, find(i, "@Bean") - 1)), LAMBDA r :
             beans_loop(r.rest, Append(beans, r.out)))

\* class_builder.build().expect(..): a panic when package or name is unset.
build(b) ==
    IF b.package = <<>> \/ b.name = <<>>
    THEN [st |-> "Panic", rest |-> "", out |-> <<>>]
    ELSE Ok("", [b EXCEPT !.package = b.package[1], !.name = b.name[1]])

\* class_members with the constructor and the beans looked for where the
\* autowire loop stopped: C22 tells it from class_members.
class_members_resuming(b, name, i) ==
    AndThen(autowires_loop(i, <<>>), LAMBDA autowires :
        AndThen(beans_loop(autowires.rest, <<>>), LAMBDA beans :
            build([set_parameters(set_interfaces(b, i),
                                  parse_constructor(name, autowires.rest))
                       EXCEPT !.autowires = autowires.out,
                              !.bean_defs = beans.out])))

\* parse_class once the class name is read: interfaces, constructor,
\* autowires, beans, build; i is the text after the name.
class_members(b, name, i) ==
    AndThen(autowires_loop(i, <<>>), LAMBDA autowires :
        AndThen(beans_loop(i, <<>>), LAMBDA beans :
            build([set_parameters(set_interfaces(b, i), parse_constructor(name, i))
                       EXCEPT !.autowires = autowires.out,
                              !.bean_defs = beans.out])))

\* parse_class once the package is read: annotations, then the class name.
class_after_package(package, i) ==
    With(class_level_annotations(i), LAMBDA annotations :
        AndThen(class_name(annotations.rest), LAMBDA name :
            class_members(
                [apply_annotations(
                     [ClassBuilder_default EXCEPT !.package = <<package>>],
                     annotations.out, package)
                     EXCEPT !.name = <<name.out>>],
                name.out, name.rest)))

parse_class(i) ==
    AndThen(package_declaration(i), LAMBDA package :
        class_after_package(package.out, package.rest))

-----------------------------------------------------------------------------
(* main.rs: the edges of a component scan.                                 *)

\* str::ends_with
ends_with(s, suffix) ==
    Len(s) >= Len(suffix) /\ Drop(s, Len(s) - Len(suffix)) = suffix

\* str::trim_end_matches(pattern) for a string pattern.
RECURSIVE trim_end_matches_str(_, _)
trim_end_matches_str(s, suffix) ==
    IF suffix # "" /\ ends_with(s, suffix)
    THEN trim_end_matches_str(Take(s, Len(s) - Len(suffix)), suffix)
    ELSE s

\* A file of the walked tree: its path, its file name and its contents.
DirEntry(path, file_name, buf) ==
    [path |-> path, file_name |-> file_name, buf |-> buf]

\* javafiles(package): the files of the tree, in the order of the walk, with
\* the extension java and a path that contains the argument.
javafiles(tree, package) ==
    SelectSeq(tree, LAMBDA entry :
        ends_with(entry.path, ".java") /\ contains(entry.path, package))

\* struct ComponentScan
ComponentScan(name, packages) ==
    [class_name |-> name, packages |-> packages]

\* format!(r#""{}" -> "{}" [label="{}"];"#, from, to)
edge_statement(from, to, label) ==
    "\"" \o from \o "\" -> \"" \o to \o "\" [label=\"" \o label \o "\"];"

\* The markers whose presence in the contents makes a file a component.
component_types == <<"@Component", "@Repository", "@Service", "@Configuration">>

\* self.packages.iter().find(|p| path.contains(p)) as an Option.
scanned_by(packages, path) ==
    With({k \in 1..Len(packages) : contains(path, packages[k])}, LAMBDA matching :
        IF matching = {} THEN <<>> ELSE <<packages[Min(matching)]>>)

\* component_types.iter().any(|ct| buf.contains(ct))
is_component(buf) ==
    \E k \in 1..Len(component_types) : contains(buf, component_types[k])

\* The statements edges pushes for one file: a contains edge from the first
\* scan path the path of the file contains, when its contents hold a marker.
contains_edges_of(packages, entry) ==
    With(scanned_by(packages, entry.path), LAMBDA by :
        IF by # <<>> /\ is_component(entry.buf)
        THEN <<edge_statement(by[1], trim_end_matches_str(entry.file_name, ".java"),
                              "contains")>>
        ELSE <<>>)

\* for entry in javafiles(dir) { ... }
RECURSIVE files_scanned(_, _)
files_scanned(packages, entries) ==
    IF entries = <<>> THEN <<>>
    ELSE contains_edges_of(packages, Head(entries))
         \o files_scanned(packages, Tail(entries))

\* ComponentScan::edges: one scans edge per path, then the contains edges.
edges(self, dir, tree) ==
    [k \in 1..Len(self.packages) |->
        edge_statement(self.class_name, self.packages[k], "scans")]
    \o files_scanned(self.packages, javafiles(tree, dir))

-----------------------------------------------------------------------------
(* main.rs: the driver and the scanners it calls.                          *)

\* An Option of main.rs, and the panic of an expect or of a slice.
None == [st |-> "None", out |-> <<>>]

Some(v) == [st |-> "Some", out |-> v]

Panic == [st |-> "Panic", out |-> <<>>]

\* str::trim_start_matches(pattern) for a string pattern.
RECURSIVE trim_start_matches_str(_, _)
trim_start_matches_str(s, prefix) ==
    IF prefix # "" /\ starts_with(s, prefix)
    THEN trim_start_matches_str(Drop(s, Len(prefix)), prefix)
    ELSE s

\* chars().take_while(|c| c.is_alphabetic()).collect()
take_while_alphabetic(s) == Take(s, SpanLen(s, Letters, TRUE, 0))

\* find_class_name: the letters that follow the first "class" and the
\* characters that are no letters behind it.
find_class_name(i) ==
    IF ~contains(i, "class") THEN None
    ELSE With(Drop(i, find(i, "class") - 1 + Len("class")), LAMBDA rest :
             With(SpanLen(rest, Letters, FALSE, 0), LAMBDA start_of_name :
                 IF start_of_name = Len(rest) THEN None
                 ELSE Some(take_while_alphabetic(Drop(rest, start_of_name)))))

\* The values of find_annotation: the text between the parentheses without
\* leading "{" and trailing "}", split on ",", each piece trimmed.
annotation_values(between) ==
    With(split(trim_end_matches(trim_start_matches(between, "{"), "}"), ","),
         LAMBDA pieces : [k \in 1..Len(pieces) |-> trim(pieces[k])])

\* find_annotation from the place of "@name" on: the first "(" and the first
\* ")" delimit the values, the class name is looked for behind the ")".  The
\* slice panics when the ")" stands before the "(".
find_annotation_at(i) ==
    With(find(i, "("), LAMBDA start_paren :
        With(find(i, ")"), LAMBDA end_paren :
            IF start_paren = 0 \/ end_paren = 0 THEN None
            ELSE IF end_paren < start_paren THEN Panic
            ELSE With(find_class_name(Drop(i, end_paren)), LAMBDA class :
                     IF class.st # "Some" THEN class
                     ELSE Some([class_name |-> class.out,
                                values |-> annotation_values(
                                    SubSeq(i, start_paren + 1, end_paren - 1))]))))

find_annotation(annotation_name, i) ==
    IF ~contains(i, "@" \o annotation_name) THEN None
    ELSE find_annotation_at(Drop(i, find(i, "@" \o annotation_name) - 1))

\* parse_import: the values without their ".class".
parse_import(i) ==
    With(find_annotation("Import", i), LAMBDA annotation :
        IF annotation.st # "Some" THEN annotation
        ELSE Some([class_name |-> annotation.out.class_name,
                   classes |-> [k \in 1..Len(annotation.out.values) |->
                       trim_end_matches_str(trim(annotation.out.values[k]), ".class")]]))

\* Import::edges
Import_edges(self) ==
    [k \in 1..Len(self.classes) |->
        edge_statement(self.class_name, self.classes[k], "imports")]

\* ComponentScan::parse: the values without their quotes.
ComponentScan_parse(i) ==
    With(find_annotation("ComponentScan", i), LAMBDA annotation :
        IF annotation.st # "Some" THEN annotation
        ELSE Some(ComponentScan(annotation.out.class_name,
                  [k \in 1..Len(annotation.out.values) |->
                      trim_end_matches(
                          trim_start_matches(annotation.out.values[k], "\""), "\"")])))

\* Bean::parse of main.rs: for each "@Bean", the letters that follow it, a
\* visibility modifier skipped, before the next "("; expect panics without
\* "(".
RECURSIVE Bean_parse(_, _)
Bean_parse(i, beans) ==
    IF ~contains(i, "@Bean") THEN Some(beans)
    ELSE With(Drop(i, find(i, "@Bean") - 1 + Len("@Bean")), LAMBDA rest :
             IF ~contains(rest, "(") THEN Panic
             ELSE Bean_parse(rest, Append(beans,
                      take_while_alphabetic(trim_start(
                          trim_start_matches_str(
                              trim_start_matches_str(
                                  trim_start(Take(rest, find(rest, "(") - 1)),
                                  "public"),
                              "private"))))))

\* Dependency::parse: for each "@Autowire", the letters that follow it and
\* the whitespace behind it.
RECURSIVE Dependency_parse(_, _)
Dependency_parse(i, dependencies) ==
    IF ~contains(i, "@Autowire") THEN dependencies
    ELSE With(trim_start(Drop(i, find(i, "@Autowire") - 1 + Len("@Autowire"))),
              LAMBDA rest :
                  Dependency_parse(rest, Append(dependencies,
                                                take_while_alphabetic(rest))))

\* What the run does, in order: the files it reads and the lines it prints.
read_file(path) == [op |-> "read", text |-> path]

println(line) == [op |-> "print", text |-> line]

\* The files ComponentScan::edges reads: those whose path holds a scan path.
files_read_by_edges(self, entries) ==
    With(SelectSeq(entries, LAMBDA entry : scanned_by(self.packages, entry.path) # <<>>),
         LAMBDA scanned : [k \in 1..Len(scanned) |-> read_file(scanned[k].path)])

\* One step of the loop body of main on the log so far; panicked says that
\* the run has ended in a panic.
Log(sofar) == [events |-> sofar, panicked |-> FALSE]

Panicked(log) == [log EXCEPT !.panicked = TRUE]

Logged(log, more) == [log EXCEPT !.events = log.events \o more]

Then(log, F(_)) == IF log.panicked THEN log ELSE F(log)

Indented(statements) == [k \in 1..Len(statements) |-> println("    " \o statements[k])]

import_step(log, buf) ==
    With(parse_import(buf), LAMBDA import :
        IF import.st = "Panic" THEN Panicked(log)
        ELSE IF import.st = "None" THEN log
        ELSE Logged(log, Indented(Import_edges(import.out))))

scan_step(log, buf, dir, tree) ==
    With(ComponentScan_parse(buf), LAMBDA scans :
        IF scans.st = "Panic" THEN Panicked(log)
        ELSE IF scans.st = "None" THEN log
        ELSE Logged(log, files_read_by_edges(scans.out, javafiles(tree, dir))
                         \o Indented(edges(scans.out, dir, tree))))

beans_step(log, filename, buf) ==
    With(Bean_parse(buf, <<>>), LAMBDA beans :
        IF beans.st = "Panic" THEN Panicked(log)
        ELSE Logged(log, [k \in 1..Len(beans.out) |->
                 println("    " \o filename \o " -> " \o beans.out[k]
                         \o " [label=defines]")]))

dependencies_step(log, filename, buf) ==
    With(Dependency_parse(buf, <<>>), LAMBDA dependencies :
        Logged(log, [k \in 1..Len(dependencies) |->
            println("    " \o filename \o " -> " \o dependencies[k]
                    \o " [label=autowires]")]))

\* The body of `for entry in javafiles(&dir)`: the file is read, then its
\* imports, its component scan, its beans and its dependencies are printed.
loop_body(log, entry, dir, tree) ==
    With(trim_end_matches_str(entry.file_name, ".java"), LAMBDA filename :
        Then(Then(Then(import_step(Logged(log, <<read_file(entry.path)>>), entry.buf),
                       LAMBDA l1 : scan_step(l1, entry.buf, dir, tree)),
                  LAMBDA l2 : beans_step(l2, filename, entry.buf)),
             LAMBDA l3 : dependencies_step(l3, filename, entry.buf)))

-----------------------------------------------------------------------------
(* The texts the parsers are applied to.  Each is written from a shape, kept *)
(* in the state so that a property can name what the text was meant to say.  *)

MaxArrayLen == 2

MaxPairs == 2

MaxAnnotations == 2

SeqsUpTo(S, n) == UNION {[1..k -> S] : k \in 0..n}

RECURSIVE Join(_, _)
Join(texts, sep) ==
    IF texts = <<>> THEN ""
    ELSE IF Len(texts) = 1 THEN texts[1]
    ELSE texts[1] \o sep \o Join(Tail(texts), sep)

\* The source text of a value: "s", C.class, {v1, v2, ...}.
RECURSIVE Render(_)
Render(v) ==
    IF v.tag = "String" THEN "\"" \o v.s \o "\""
    ELSE IF v.tag = "Class" THEN v.s \o ".class"
    ELSE "{" \o Join([k \in 1..Len(v.items) |-> Render(v.items[k])], ", ") \o "}"

\* Array elements: non-empty string literals and type references.
Elements ==
    {StringArg("com.example"), StringArg("a"), ClassArg("Foo"), ClassArg("Bar")}

Arrays == {ArrayArg(vs) : vs \in SeqsUpTo(Elements, MaxArrayLen)}

\* One value, with the text that follows it.
ValueShapes ==
    [level : {"arg"}, form : {"value"},
     v : Elements \cup {StringArg(""), StringArg("a=b")} \cup Arrays,
     tail : {"", ", x"}]

\* Texts that are no value, or a value written loosely.
RawShapes ==
    [level : {"arg"}, form : {"raw"},
     text : {"", "1", "Foo", "\"abc", "{\"a\"", "{ }", "{ Foo.class }",
             "{\"a\", 1}", "{A.class , B.class}", " Foo.class", ".class"}]

\* A keyed payload: key = value pairs; a pair's value is a value or the
\* malformed text 1.
PairValues ==
    {[ok |-> TRUE, v |-> x] :
        x \in {StringArg("x"), ClassArg("Foo"), ArrayArg(<<ClassArg("A"), ClassArg("B")>>)}}
    \cup {[ok |-> FALSE, v |-> StringArg("1")]}

Pairs == [k : {"value", "name"}, val : PairValues]

RenderPair(p) == p.k \o " = " \o (IF p.val.ok THEN Render(p.val.v) ELSE p.val.v.s)

KeyedShapes ==
    [level : {"arg"}, form : {"keyed"}, pairs : SeqsUpTo(Pairs, MaxPairs) \ {<<>>}]

RenderKeyed(pairs) == Join([k \in 1..Len(pairs) |-> RenderPair(pairs[k])], ", ")

\* @MyAnnotation({v1, v2, ...})
ArrayAnnotationShapes ==
    [level : {"annotation"}, form : {"array"}, vs : SeqsUpTo(Elements, MaxArrayLen)]

\* @MyAnnotation(payload), and annotations without parentheses.
AnnotationShapes ==
    [level : {"annotation"}, form : {"text"},
     text : {"@MyAnnotation(Test.class)", "@MyAnnotation(\"com.example\")",
             "@MyAnnotation(foo = Foo.class, bar = \"com.example\", baz = {A.class, B.class})",
             "@MyAnnotation", "@MyAnnotation()", "@Order(1)", "@Bean(\"a=b\")",
             "@Import ( Something.class )", "MyAnnotation",
             "@Component @Import(Bar.class) class Foo", "@A(\"x\") @Order(1) @B"}]

\* The file of the extractor's contract:
\* package P; @K class N { @Autowired T f; }
ComponentKinds ==
    {"SpringBootApplication", "Configuration", "Controller", "Service",
     "Repository", "Component"}

ContractShapes ==
    [level : {"class"}, form : {"contract"}, P : {"a.b.c", "p"}, K : ComponentKinds,
     N : {"Foo", "Main"}, T : {"Bar", "Foo"}, f : {"bar", "foo1"}]

RenderContract(sh) ==
    "package " \o sh.P \o "; @" \o sh.K \o " class " \o sh.N
    \o " { @Autowired " \o sh.T \o " " \o sh.f \o "; }"

\* Class level annotations as they are written; ok says whether the payload
\* is one of the value forms.
Marker(name) == [text |-> "@" \o name, name |-> name, ok |-> TRUE]

AnnotationPool ==
    {Marker(k) : k \in ComponentKinds \cup {"RestController", "Lazy"}}
    \cup {[text |-> "@Order(1)", name |-> "Order", ok |-> FALSE],
          [text |-> "@Import(Bar.class)", name |-> "Import", ok |-> TRUE],
          [text |-> "@ComponentScan(\"a.b\")", name |-> "ComponentScan", ok |-> TRUE]}

\* A text that holds a run of annotations of AnnotationPool, with text before
\* and after it.
AnnotationRunShapes ==
    [level : {"annotation"}, form : {"run"}, lead : {"", "public class Foo "},
     anns : SeqsUpTo(AnnotationPool, MaxAnnotations),
     tail : {"", " class Foo {}"}]

RenderRun(sh) ==
    sh.lead \o Join([k \in 1..Len(sh.anns) |-> sh.anns[k].text], " ") \o sh.tail

\* An annotation with one value, written with whitespace before the opening
\* parenthesis, between it and the value, and between the value and the
\* closing one.
SpacedAnnotationShapes ==
    [level : {"annotation"}, form : {"spaced"}, name : {"Import", "ComponentScan"},
     v : {ClassArg("Something"), StringArg("foo.bar.baz"),
          ArrayArg(<<ClassArg("Something"), ClassArg("Potato")>>)},
     gap : {"", " "}, before : {"", " ", "\n    "}, after : {"", " ", "\n"}]

RenderSpaced(sh) ==
    "@" \o sh.name \o sh.gap \o "(" \o sh.before \o Render(sh.v) \o sh.after \o ")"

\* A file: package declaration, class level annotations, class declaration,
\* body.
AnnotatedFileShapes ==
    [level : {"class"}, form : {"file"}, pkg : {"package a.b.c;"},
     anns : SeqsUpTo(AnnotationPool, MaxAnnotations),
     decl : {"public class Foo"}, body : {" {}"}]

VariedFileShapes ==
    [level : {"class"}, form : {"file"},
     pkg : {"package a.b.c;", "package ;", "package;", "package a.b.c", ""},
     anns : {<<>>, <<Marker("Component")>>},
     decl : {"public class Foo", "class Foo", "class ", "interface Foo", ""},
     body : {" {}", " { @Autowired Bar bar; }",
             " { @Bean public MyBean myBean(FooBean fooBean) { } }",
             " { Foo(Arg arg) {} }"}]

RenderFile(sh) ==
    sh.pkg \o " "
    \o Join([k \in 1..Len(sh.anns) |-> sh.anns[k].text \o " "], "")
    \o sh.decl \o sh.body

\* Class level annotations that set imports and component scans.  imports is
\* what an Import marker names; scans is what a ComponentScan marker names, as
\* an Option: <<>> for a marker that is no ComponentScan, <<paths>> for one,
\* the empty array naming no path.
ScanMarker(text, name, imports, scans) ==
    [text |-> text, name |-> name, imports |-> imports, scans |-> scans]

ScanPool ==
    {ScanMarker("@Import(Bar.class)", "Import", <<"Bar">>, <<>>),
     ScanMarker("@Import({A.class, B.class})", "Import", <<"A", "B">>, <<>>),
     ScanMarker("@Import({Baz.class, \"x\"})", "Import", <<"Baz">>, <<>>),
     ScanMarker("@ComponentScan(\"a.b\")", "ComponentScan", <<>>, << <<"a.b">> >>),
     ScanMarker("@ComponentScan({\"x.y\", \"z\"})", "ComponentScan", <<>>,
                << <<"x.y", "z">> >>),
     ScanMarker("@ComponentScan({})", "ComponentScan", <<>>, << <<>> >>),
     ScanMarker("@SpringBootApplication", "SpringBootApplication", <<>>, <<>>),
     ScanMarker("@Component", "Component", <<>>, <<>>)}

\* A file whose class level annotations come from ScanPool.
MarkedFileShapes ==
    [level : {"class"}, form : {"marked"}, P : {"a.b.c", "p"},
     anns : SeqsUpTo(ScanPool, MaxAnnotations) \ {<<>>},
     decl : {"public class Foo"}, body : {" {}"}]

RenderMarked(sh) ==
    "package " \o sh.P \o "; "
    \o Join([k \in 1..Len(sh.anns) |-> sh.anns[k].text \o " "], "")
    \o sh.decl \o sh.body

\* A file whose class declaration names the interfaces it implements.
MaxInterfaces == 2

InterfaceFileShapes ==
    [level : {"class"}, form : {"implements"},
     ifaces : SeqsUpTo({"IFoo", "Bar", "Baz"}, MaxInterfaces),
     sep : {", ", ","},
     body : {" {}", " { @Autowired Bar bar; }"}]

RenderInterfaces(sh) ==
    "package a.b.c; @Component public class Foo"
    \o (IF sh.ifaces = <<>> THEN "" ELSE " implements " \o Join(sh.ifaces, sh.sep))
    \o sh.body

\* A file whose class body holds injected fields; ok says whether the marker
\* is followed, after further markers and whitespace, by two identifiers.
MaxFields == 2

Field(text, ok, class, name) ==
    [text |-> text, ok |-> ok, class |-> class, name |-> name]

FieldPool ==
    {Field("@Autowired Bar bar;", TRUE, "Bar", "bar"),
     Field("@Autowired @Lazy Baz baz", TRUE, "Baz", "baz"),
     Field("void set(@Autowired @NotNull Qux qux) {}", TRUE, "Qux", "qux"),
     Field("@Autowired List<Foo> foos;", FALSE, "", ""),
     Field("@Autowired Bar;", FALSE, "", "")}

FieldFileShapes ==
    [level : {"class"}, form : {"fields"},
     fields : SeqsUpTo(FieldPool, MaxFields) \ {<<>>}]

RenderFields(sh) ==
    "package a.b.c; @Component public class Foo { "
    \o Join([k \in 1..Len(sh.fields) |-> sh.fields[k].text \o " "], "")
    \o "}"

\* The file of the test of parse_class.
TestFileShapes ==
    [level : {"class"}, form : {"test"},
     text : {"\n package a.b.c;\n\n @Component\n @Import(Bar.class)\n"
             \o " @ComponentScan(\"a.b.c\")\n public class Foo implements IFoo {\n"
             \o "     @Autowired Foo foo;\n     @Bean\n"
             \o "     public MyBean myBean( @Autowired @NotNull FooBean fooBean ) { ... }\n\n"
             \o "     Foo(@Arg Arg arg) {}\n }\n "}]

\* A class body as a sequence of different members: injected fields, factory
\* methods and the constructor of Foo.
MaxMembers == 3

Member(kind, text, class, name, parameters) ==
    [kind |-> kind, text |-> text, class |-> class, name |-> name,
     parameters |-> parameters]

MemberPool ==
    {Member("field", "@Autowired Bar bar;", "Bar", "bar", <<>>),
     Member("field", "@Autowired Baz baz;", "Baz", "baz", <<>>),
     Member("bean", "@Bean public MyBean myBean(FooBean fooBean) { }",
            "MyBean", "myBean", <<Parameter("FooBean", "fooBean")>>),
     Member("bean", "@Bean Other other() { }", "Other", "other", <<>>),
     Member("constructor", "Foo(Arg arg) {}", "Foo", "", <<Parameter("Arg", "arg")>>)}

MemberFileShapes ==
    [level : {"class"}, form : {"members"},
     members : {ms \in SeqsUpTo(MemberPool, MaxMembers) :
                   \A j, k \in 1..Len(ms) : ms[j] = ms[k] => j = k}]

RenderMembers(sh) ==
    "package a.b.c; @Component public class Foo { "
    \o Join([k \in 1..Len(sh.members) |-> sh.members[k].text \o " "], "")
    \o "}"

\* A file whose one injected field is written with a visibility modifier.
ModifierFileShapes ==
    [level : {"class"}, form : {"modifier"},
     vis : {"private", "public", "protected"}, T : {"Bar", "Foo"}, f : {"bar", "foo1"}]

RenderModifier(sh) ==
    "package a.b.c; @Component public class Foo { @Autowired "
    \o sh.vis \o " " \o sh.T \o " " \o sh.f \o "; }"

\* A parameter list: each entry is written as its leading @ tokens, its type
\* and its name; an entry with the name "" is written without one.
MaxParams == 2

Entry(anns, type, name) == [anns |-> anns, type |-> type, name |-> name]

EntryPool ==
    {Entry(<<>>, "Bar", "bar"), Entry(<<>>, "Baz", "baz"),
     Entry(<<"@NotNull">>, "Bar", "bar"),
     Entry(<<"@NotNull", "@Something">>, "Baz", "baz"),
     Entry(<<>>, "Qux", "")}

RenderEntry(e) ==
    Join(e.anns \o <<e.type>> \o (IF e.name = "" THEN <<>> ELSE <<e.name>>), " ")

RenderEntries(entries) ==
    Join([k \in 1..Len(entries) |-> RenderEntry(entries[k])], ", ")

\* The list as the parameters of the constructor of Foo and of a factory
\* method.
ParameterShapes ==
    [level : {"constructor", "bean"}, form : {"params"},
     entries : SeqsUpTo(EntryPool, MaxParams)]

RenderParameters(sh) ==
    IF sh.level = "constructor"
    THEN " { public Foo(" \o RenderEntries(sh.entries) \o ") {} }"
    ELSE "@Bean public MyBean myBean(" \o RenderEntries(sh.entries) \o ") { }"

\* Class bodies with and without a constructor of Foo.
ConstructorShapes ==
    [level : {"constructor"}, form : {"raw"},
     text : {"", " {}", " { Foo() {} }", " { Foo( ) {} }", " { Main(Bar bar) {} }",
             " { // Docs with Foo?\n public or something Foo(@NotNull @Something Bar bar, Baz baz) {\n // stuff\n } }"}]

\* A factory method: its marker, with the name the marker gives the bean as
\* an Option, a visibility, a return type, a name and parameters.
BeanMarker(text, override) == [text |-> text, override |-> override]

BeanMarkers ==
    {BeanMarker("@Bean", <<>>),
     BeanMarker("@Bean(\"newName\")", <<"newName">>),
     BeanMarker("@Bean(value = \"newName\")", <<"newName">>),
     BeanMarker("@Bean(name = \"other\")", <<>>),
     BeanMarker("@Bean(Foo.class)", <<>>),
     BeanMarker("@Bean(\"a=b\")", <<>>)}

BeanShapes ==
    [level : {"bean"}, form : {"bean"}, marker : BeanMarkers,
     gap : {" ", "\n    "}, vis : {"", "public ", "private ", "protected "},
     type : {"MyBean", "Foo"}, name : {"myBean", "foo"},
     params : {" ", "FooBean fooBean"}]

RenderBean(sh) ==
    sh.marker.text \o sh.gap \o sh.vis \o sh.type \o " " \o sh.name
    \o "(" \o sh.params \o ") { ... }"

\* A tree of files and the component scan of one of them.  A record is a
\* class by its package and its component kind (an Option); its name is given
\* by its place, its file lies where its package says, and its contents
\* declare the package, the marker of the kind and the class.
MaxScanPaths == 2

MaxRecords == 2

RecordNames == <<"Alpha", "Beta", "Gamma", "Delta">>

Records == [P : {"com.example", "org"}, K : {<<>>, <<"Component">>, <<"Controller">>}]

ScanShapes ==
    [level : {"graph"}, form : {"scan"},
     packages : SeqsUpTo({"com", "com.example", "org"}, MaxScanPaths) \ {<<>>},
     records : SeqsUpTo(Records, MaxRecords) \ {<<>>},
     dir : {".", "com"}]

PathOf(P, N) == "./" \o Join(split(P, "."), "/") \o "/" \o N \o ".java"

RecordFile(r, N) ==
    DirEntry(PathOf(r.P, N), N \o ".java",
             "package " \o r.P \o "; "
             \o (IF r.K = <<>> THEN "" ELSE "@" \o r.K[1] \o " ")
             \o "public class " \o N \o " {}")

\* The scanning class App of package com.example.
ScannerFile(packages) ==
    DirEntry(PathOf("com.example", "App"), "App.java",
             "package com.example; @ComponentScan({"
             \o Join([k \in 1..Len(packages) |-> "\"" \o packages[k] \o "\""], ", ")
             \o "}) public class App {}")

\* The tree in the order of the walk: the scanning class, then the records.
RenderTree(sh) ==
    <<ScannerFile(sh.packages)>>
    \o [j \in 1..Len(sh.records) |-> RecordFile(sh.records[j], RecordNames[j])]

\* A tree of files for main to walk, and the argument of the run.
MaxFiles == 2

FilePool ==
    {DirEntry("./com/example/App.java", "App.java",
              "package com.example; @Import(Config.class) @ComponentScan(\"com\") "
              \o "public class App {}"),
     DirEntry("./com/example/Config.java", "Config.java",
              "package com.example; @Configuration public class Config { "
              \o "@Bean public Foo foo() { return new Foo(); } }"),
     DirEntry("./com/example/FooService.java", "FooService.java",
              "package com.example; @Service public class FooService { "
              \o "@Autowired Foo foo; }"),
     DirEntry("./org/Plain.java", "Plain.java", "package org; public class Plain {}"),
     DirEntry("./com/example/Broken.java", "Broken.java",
              "package com.example; public class Broken { @Bean Foo foo; }")}

RunShapes ==
    [level : {"run"}, form : {"tree"},
     tree : {fs \in SeqsUpTo(FilePool, MaxFiles) :
                fs # <<>> /\ \A j, k \in 1..Len(fs) : fs[j] = fs[k] => j = k},
     dir : {".", "com"}]

-----------------------------------------------------------------------------
(* The harness: one text is chosen, one parser is applied to it.           *)

NotCalled == [st |-> "none", rest |-> "", out |-> <<>>]

Init ==
    /\ called = "none"
    /\ result = NotCalled
    /\ \/ shape \in ValueShapes /\ input = Render(shape.v) \o shape.tail
       \/ shape \in RawShapes /\ input = shape.text
       \/ shape \in KeyedShapes /\ input = RenderKeyed(shape.pairs)
       \/ shape \in ArrayAnnotationShapes
          /\ input = "@MyAnnotation(" \o Render(ArrayArg(shape.vs)) \o ")"
       \/ shape \in AnnotationShapes /\ input = shape.text
       \/ shape \in AnnotationRunShapes /\ input = RenderRun(shape)
       \/ shape \in SpacedAnnotationShapes /\ input = RenderSpaced(shape)
       \/ shape \in ContractShapes /\ input = RenderContract(shape)
       \/ shape \in AnnotatedFileShapes \cup VariedFileShapes
          /\ input = RenderFile(shape)
       \/ shape \in MarkedFileShapes /\ input = RenderMarked(shape)
       \/ shape \in InterfaceFileShapes /\ input = RenderInterfaces(shape)
       \/ shape \in FieldFileShapes /\ input = RenderFields(shape)
       \/ shape \in TestFileShapes /\ input = shape.text
       \/ shape \in MemberFileShapes /\ input = RenderMembers(shape)
       \/ shape \in ModifierFileShapes /\ input = RenderModifier(shape)
       \/ shape \in ParameterShapes /\ input = RenderParameters(shape)
       \/ shape \in ConstructorShapes /\ input = shape.text
       \/ shape \in BeanShapes /\ input = RenderBean(shape)
       \/ shape \in ScanShapes /\ input = RenderTree(shape)
       \/ shape \in RunShapes /\ input = shape.tree
    /\ pc = IF shape.level = "run" THEN "start" ELSE "idle"
    /\ next = 1
    /\ events = <<>>

Call(name, r) ==
    /\ called = "none"
    /\ called' = name
    /\ result' = r
    /\ UNCHANGED <<shape, input, pc, next, events>>

ParseArg == shape.level = "arg" /\ Call("parse_arg", parse_arg(input))

ParseKeyValuePairs ==
    shape.level = "arg" /\ Call("parse_key_value_pairs", parse_key_value_pairs(input))

ParseArgs == shape.level = "arg" /\ Call("parse_args", parse_args(input))

ParseAnnotation ==
    shape.level = "annotation" /\ Call("parse_annotation", parse_annotation(input))

ParseAnnotations ==
    shape.level = "annotation" /\ Call("parse_annotations", parse_annotations(input))

ParseClass == shape.level = "class" /\ Call("parse_class", parse_class(input))

\* parse_constructor("Foo", body): None or Some(parameters).
OptionResult(option) ==
    IF option = <<>> THEN [st |-> "None", rest |-> "", out |-> <<>>]
    ELSE [st |-> "Some", rest |-> "", out |-> option[1]]

ParseConstructor ==
    /\ shape.level = "constructor"
    /\ Call("parse_constructor", OptionResult(parse_constructor("Foo", input)))

ParseBean == shape.level = "bean" /\ Call("parse_bean", parse_bean(input))

\* ComponentScan::edges of the scanning class over the tree.
Edges ==
    /\ shape.level = "graph"
    /\ Call("edges", [st |-> "Vec", rest |-> "",
                      out |-> edges(ComponentScan("App", shape.packages),
                                    shape.dir, input)])

\* main up to the loop: the header of the graph is printed.
MainStart ==
    /\ pc = "start"
    /\ events' = Append(events, println("digraph Components {"))
    /\ pc' = "loop"
    /\ UNCHANGED <<shape, input, called, result, next>>

\* One turn of the loop of main, on the next file of javafiles(dir).
MainEntry ==
    /\ pc = "loop"
    /\ next <= Len(javafiles(input, shape.dir))
    /\ LET log == loop_body(Log(events), javafiles(input, shape.dir)[next],
                            shape.dir, input)
       IN  /\ events' = log.events
           /\ pc' = IF log.panicked THEN "panicked" ELSE "loop"
    /\ next' = next + 1
    /\ UNCHANGED <<shape, input, called, result>>

\* main after the loop: the graph is closed.
MainDone ==
    /\ pc = "loop"
    /\ next > Len(javafiles(input, shape.dir))
    /\ events' = Append(events, println("}"))
    /\ pc' = "done"
    /\ UNCHANGED <<shape, input, called, result, next>>

Next ==
    \/ ParseArg
    \/ ParseKeyValuePairs
    \/ ParseArgs
    \/ ParseAnnotation
    \/ ParseAnnotations
    \/ ParseClass
    \/ ParseConstructor
    \/ ParseBean
    \/ Edges
    \/ MainStart
    \/ MainEntry
    \/ MainDone

Spec == Init /\ [][Next]_vars

-----------------------------------------------------------------------------
(* Properties of parse_class on whole files.                               *)

\* C1: on a file `package P; @K class N { @Autowired T f; }`, K one of the six
\* component kinds, parse_class succeeds with package P, component type K,
\* name N and exactly the one autowire of type T named f.
C1_ContractFile ==
    (called = "parse_class" /\ shape.form = "contract") =>
        /\ result.st = "Ok"
        /\ result.out.package = shape.P
        /\ result.out.component_type = <<shape.K>>
        /\ result.out.name = shape.N
        /\ result.out.autowires = <<Autowired(shape.T, shape.f)>>

C1_Witness ==
    /\ called = "parse_class"
    /\ input = "package a.b.c; @Component class Foo { @Autowired Bar bar; }"
    /\ result.st = "Ok"
    /\ result.out.autowires = <<Autowired("Bar", "bar")>>

\* The text has a package declaration and, once the class level annotations
\* are read, holds no "class".
NoClassRemains(text) ==
    /\ package_declaration(text).st = "Ok"
    /\ ~contains(class_level_annotations(package_declaration(text).rest).rest, "class")

\* C2: parse_class never panics; it returns a failure, and so no class, when
\* the text holds no "package", and when no "class" remains after the package
\* declaration and the class level annotations.
C2_MissingAnchorsFail ==
    called = "parse_class" =>
        /\ result.st # "Panic"
        /\ ~contains(input, "package") => result.st = "Failure"
        /\ NoClassRemains(input) => result.st = "Failure"

C2_Witness ==
    /\ called = "parse_class"
    /\ shape.form = "file"
    /\ shape.pkg = "package a.b.c;"
    /\ shape.decl = "interface Foo"
    /\ NoClassRemains(input)
    /\ result.st = "Failure"

\* C3: whenever parse_class succeeds, the class has a non-empty name and a
\* non-empty package.
C3_NameAndPackageNonEmpty ==
    (called = "parse_class" /\ result.st = "Ok") =>
        result.out.name # "" /\ result.out.package # ""

\* A class level annotation of the file is malformed.
HasMalformedAnnotation(anns) == \E j \in 1..Len(anns) : ~anns[j].ok

\* C9: a malformed annotation among the class level annotations makes
\* parse_class fail.
C9_MalformedAnnotationAborts ==
    (called = "parse_class" /\ shape.form = "file"
        /\ HasMalformedAnnotation(shape.anns)) =>
        result.st # "Ok"

Max(S) == CHOOSE x \in S : \A y \in S : y <= x

\* The places of the component markers among the annotations written.
MarkerPlaces(anns) ==
    {j \in 1..Len(anns) : anns[j].name \in ComponentKinds \cup {"RestController"}}

\* The kind the last component marker written stands for, as an Option.
LastMarker(anns) ==
    IF MarkerPlaces(anns) = {} THEN <<>>
    ELSE IF anns[Max(MarkerPlaces(anns))].name = "RestController" THEN <<"Controller">>
    ELSE <<anns[Max(MarkerPlaces(anns))].name>>

\* C10: after parse_class succeeds, the component type is that of the last
\* component marker among the class level annotations, and is absent exactly
\* when they hold no component marker.
C10_KindIsLastMarker ==
    (called = "parse_class" /\ shape.form = "file" /\ result.st = "Ok") =>
        result.out.component_type = LastMarker(shape.anns)

\* What does hold of the component type: it is that of the last marker when
\* every class level annotation is well formed.
KindIsLastMarkerOfWellFormedRun ==
    (called = "parse_class" /\ shape.form = "file" /\ result.st = "Ok"
        /\ ~HasMalformedAnnotation(shape.anns)) =>
        result.out.component_type = LastMarker(shape.anns)

-----------------------------------------------------------------------------
(* Properties of the value grammar and the annotation scanner.             *)

\* The text after the opening quote of a string literal.
AfterQuote(text) == Drop(text, 1)

\* C4: parse_arg decodes a text that starts with a quote to the String of the
\* characters between that quote and the next one, a text that starts with
\* neither a quote nor a brace to the Class of everything before the first
\* ".class", and fails on such a text when it holds no ".class".
C4_ValueForms ==
    called = "parse_arg" =>
        /\ (starts_with(input, "\"") /\ contains(AfterQuote(input), "\"")) =>
               result = Ok(Drop(AfterQuote(input), find(AfterQuote(input), "\"")),
                           StringArg(Take(AfterQuote(input),
                                          find(AfterQuote(input), "\"") - 1)))
        /\ (~starts_with(input, "\"") /\ ~starts_with(input, "{")) =>
               IF contains(input, ".class")
               THEN result = Ok(Drop(input, find(input, ".class") - 1 + Len(".class")),
                                ClassArg(Take(input, find(input, ".class") - 1)))
               ELSE result.st # "Ok"

\* What does hold of the three forms: C4 for every text but those that start
\* with the empty literal "".
ValueFormsOfNonEmptyLiterals ==
    (called = "parse_arg" /\ ~starts_with(input, "\"\"")) => C4_ValueForms

\* C5: parse_arg decodes the array {v1, v2, ..., vn} to the Array of the n
\* values in order, and the empty array {} to the Array of no values.
C5_ArrayDecoding ==
    (called = "parse_arg" /\ shape.form = "value" /\ shape.v.tag = "Array") =>
        result = Ok(shape.tail, shape.v)

\* What does hold of arrays: C5 for the arrays of at least one value.
NonEmptyArrayDecoding ==
    (called = "parse_arg" /\ shape.form = "value" /\ shape.v.tag = "Array"
        /\ shape.v.items # <<>>) =>
        result = Ok(shape.tail, shape.v)

\* C6: whenever parse_args succeeds, the arguments are Multi when the text
\* holds an "=" anywhere, also inside a string literal, and Single when it
\* holds none.
C6_ClassifiedByEquals ==
    (called = "parse_args" /\ result.st = "Ok") =>
        IF contains(input, "=") THEN result.out.kind = "Multi"
        ELSE result.out.kind = "Single"

C6_Witness ==
    /\ called = "parse_args"
    /\ input = "\"a=b\""
    /\ result.st = "Ok"
    /\ result.out.kind = "Multi"

\* The value the last pair with the given key carries.
LastValue(pairs, key) ==
    pairs[Max({j \in 1..Len(pairs) : pairs[j].k = key})].val.v

\* C7: when parse_key_value_pairs succeeds nothing of the payload is left, no
\* pair is left undecoded, and every key is bound to the value of its last
\* occurrence.
C7_KeyedConsumesAll ==
    (called = "parse_key_value_pairs" /\ shape.form = "keyed"
        /\ result.st = "Ok") =>
        /\ result.rest = ""
        /\ \A j \in 1..Len(shape.pairs) :
               /\ shape.pairs[j].val.ok
               /\ hashmap_contains(result.out, shape.pairs[j].k)
               /\ hashmap_get(result.out, shape.pairs[j].k)
                      = LastValue(shape.pairs, shape.pairs[j].k)

\* What does hold of keyed payloads: C7 when every pair of the payload is
\* well formed.
WellFormedKeyedConsumesAll ==
    (called = "parse_key_value_pairs" /\ shape.form = "keyed"
        /\ \A j \in 1..Len(shape.pairs) : shape.pairs[j].val.ok) =>
        result.st = "Ok" /\ C7_KeyedConsumesAll

\* C8: parse_annotation reads @Name({v1, v2, ...}), written from any sequence
\* of string literals and type references, the empty one included, back to
\* Single(Array) of the same values.
C8_ArrayRoundTrip ==
    (called = "parse_annotation" /\ shape.form = "array") =>
        /\ result.st = "Ok"
        /\ result.out.args = Single(ArrayArg(shape.vs))

\* What does hold of the round trip: C8 for the sequences of at least one
\* value.
NonEmptyArrayRoundTrip ==
    (called = "parse_annotation" /\ shape.form = "array" /\ shape.vs # <<>>) =>
        /\ result.st = "Ok"
        /\ result.out.args = Single(ArrayArg(shape.vs))

-----------------------------------------------------------------------------
(* Properties of the class level annotations: imports and component scans.  *)

\* What the Import markers among the annotations name, one after the other.
RECURSIVE AllImports(_)
AllImports(anns) ==
    IF anns = <<>> THEN <<>> ELSE Head(anns).imports \o AllImports(Tail(anns))

\* The places of the markers with the given name.
PlacesOf(anns, name) == {j \in 1..Len(anns) : anns[j].name = name}

\* No annotation written is a ComponentScan of the empty array {}.
NoEmptyArray(anns) == \A j \in 1..Len(anns) : anns[j].scans # << <<>> >>

\* C11: every Import marker among the class level annotations contributes to
\* the imports of the class: a class with two Import markers ends with the
\* imports of both.
C11_EveryImportContributes ==
    (called = "parse_class" /\ shape.form = "marked" /\ NoEmptyArray(shape.anns)) =>
        /\ result.st = "Ok"
        /\ result.out.imports = AllImports(shape.anns)

\* What does hold of the imports: they are those of the last Import marker.
ImportsAreThoseOfLastMarker ==
    (called = "parse_class" /\ shape.form = "marked" /\ NoEmptyArray(shape.anns)) =>
        /\ result.st = "Ok"
        /\ result.out.imports =
               IF PlacesOf(shape.anns, "Import") = {} THEN <<>>
               ELSE shape.anns[Max(PlacesOf(shape.anns, "Import"))].imports

\* The class carries one ComponentScan marker and no SpringBootApplication.
OneComponentScan(anns) ==
    /\ Cardinality(PlacesOf(anns, "ComponentScan")) = 1
    /\ PlacesOf(anns, "SpringBootApplication") = {}

\* The paths the one ComponentScan marker names.
ScanPathsWritten(anns) ==
    anns[CHOOSE j \in PlacesOf(anns, "ComponentScan") : TRUE].scans[1]

\* C12: for a ComponentScan marker the component scans are the string it
\* names, the strings of the non-empty array it names in order, and the
\* package of the class when it names the empty array {}.
C12_ComponentScanPaths ==
    (called = "parse_class" /\ shape.form = "marked"
        /\ OneComponentScan(shape.anns)) =>
        /\ result.st = "Ok"
        /\ result.out.component_scans =
               IF ScanPathsWritten(shape.anns) = <<>> THEN <<shape.P>>
               ELSE ScanPathsWritten(shape.anns)

\* What does hold of a ComponentScan marker: C12 for a string and for an array
\* of at least one string.
ComponentScanOfNamedPaths ==
    (called = "parse_class" /\ shape.form = "marked"
        /\ OneComponentScan(shape.anns)
        /\ ScanPathsWritten(shape.anns) # <<>>) =>
        /\ result.st = "Ok"
        /\ result.out.component_scans = ScanPathsWritten(shape.anns)

\* The package a file shape declares.
PackageWritten(sh) == IF sh.form = "marked" THEN sh.P ELSE "a.b.c"

\* The class level annotations hold SpringBootApplication and no ComponentScan.
ApplicationRootOnly(sh) ==
    /\ sh.form = "marked" \/ (sh.form = "file" /\ sh.pkg = "package a.b.c;"
                                 /\ sh.decl = "public class Foo")
    /\ PlacesOf(sh.anns, "SpringBootApplication") # {}
    /\ PlacesOf(sh.anns, "ComponentScan") = {}

\* C13: a class whose class level annotations hold SpringBootApplication and
\* no ComponentScan has its own package as its one component scan and the
\* component type SpringBootApplication.
C13_ApplicationRootScansOwnPackage ==
    (called = "parse_class" /\ ApplicationRootOnly(shape)) =>
        /\ result.st = "Ok"
        /\ result.out.component_scans = <<PackageWritten(shape)>>
        /\ result.out.component_type = <<"SpringBootApplication">>

\* What does hold of SpringBootApplication without ComponentScan: the package
\* is the one component scan when every annotation before it is well formed.
ApplicationRootAfterWellFormedRun ==
    (called = "parse_class" /\ ApplicationRootOnly(shape)
        /\ (shape.form = "file" => ~HasMalformedAnnotation(shape.anns))) =>
        /\ result.st = "Ok"
        /\ result.out.component_scans = <<PackageWritten(shape)>>

\* C14: the interfaces of the class are the identifiers I1, I2, ..., In that
\* follow "implements", all n in order, and none when the keyword is absent.
C14_AllInterfacesListed ==
    (called = "parse_class" /\ shape.form = "implements") =>
        /\ result.st = "Ok"
        /\ result.out.interfaces = shape.ifaces

\* What does hold of the interfaces: only the first identifier is listed.
FirstInterfaceListed ==
    (called = "parse_class" /\ shape.form = "implements") =>
        /\ result.st = "Ok"
        /\ result.out.interfaces =
               IF shape.ifaces = <<>> THEN <<>> ELSE <<shape.ifaces[1]>>

-----------------------------------------------------------------------------
(* Properties of the scans of the class body.                              *)

\* C18: a malformed occurrence of @Autowired makes parse_class fail as a
\* whole: no class is returned, also none that holds the autowires read
\* before the malformed occurrence.
C18_MalformedAutowireAborts ==
    (called = "parse_class" /\ shape.form = "fields"
        /\ \E j \in 1..Len(shape.fields) : ~shape.fields[j].ok) =>
        result.st \in {"Error", "Failure"}

C18_Witness ==
    /\ called = "parse_class"
    /\ input = "package a.b.c; @Component public class Foo { "
               \o "@Autowired Bar bar; @Autowired List<Foo> foos; }"
    /\ result.st = "Error"

\* What holds of well formed occurrences: each yields its autowire, in order.
WellFormedAutowiresRead ==
    (called = "parse_class" /\ shape.form = "fields"
        /\ \A j \in 1..Len(shape.fields) : shape.fields[j].ok) =>
        /\ result.st = "Ok"
        /\ result.out.autowires =
               [j \in 1..Len(shape.fields) |->
                   Autowired(shape.fields[j].class, shape.fields[j].name)]

\* The file has a package, no class level annotation and a class Foo.
NoClassLevelAnnotation(sh) ==
    /\ sh.form = "file"
    /\ sh.pkg = "package a.b.c;"
    /\ sh.anns = <<>>
    /\ sh.decl \in {"public class Foo", "class Foo"}

\* C20: the class level annotations are looked for before the class keyword
\* only: a file without class level annotation whose class body holds
\* annotated members is read with the name of its class and no component
\* type.
C20_MemberAnnotationsNotClassLevel ==
    (called = "parse_class" /\ NoClassLevelAnnotation(shape)) =>
        /\ result.st = "Ok"
        /\ result.out.name = "Foo"
        /\ result.out.component_type = <<>>

\* What does hold without class level annotation: C20 when the class body
\* holds no "@".
NoAnnotationAnywhere ==
    (called = "parse_class" /\ NoClassLevelAnnotation(shape)
        /\ ~contains(input, "@")) =>
        C20_MemberAnnotationsNotClassLevel

-----------------------------------------------------------------------------
(* Properties of parameter lists and factory methods.                      *)

\* The parameters a call returned.
ParametersRead ==
    IF called = "parse_bean" THEN result.out.parameters ELSE result.out

\* The call succeeded.
ListRead ==
    \/ called = "parse_constructor" /\ result.st = "Some"
    \/ called = "parse_bean" /\ result.st = "Ok"

\* The entries that carry a name, in order.
RECURSIVE NamedEntries(_)
NamedEntries(entries) ==
    IF entries = <<>> THEN <<>>
    ELSE (IF Head(entries).name # "" THEN <<Head(entries)>> ELSE <<>>)
         \o NamedEntries(Tail(entries))

\* The type and name each entry is written with.
ParametersWritten(entries) ==
    [j \in 1..Len(entries) |-> Parameter(entries[j].type, entries[j].name)]

\* C15: parse_constructor and parse_bean decode each entry
\* `@A1 ... @Ak Type name` to one Parameter of type Type and name name, in the
\* order of the entries.  (Parameter of bean.rs has no field for the @ tokens;
\* the type, the name and the order are what is stated.)
C15_ParameterGrammar ==
    (called \in {"parse_constructor", "parse_bean"} /\ shape.form = "params"
        /\ NamedEntries(shape.entries) = shape.entries) =>
        /\ ListRead
        /\ ParametersRead = ParametersWritten(shape.entries)

\* What does hold of the parameter grammar: C15 for entries without @ tokens.
ParametersWithoutMarkers ==
    (called \in {"parse_constructor", "parse_bean"} /\ shape.form = "params"
        /\ NamedEntries(shape.entries) = shape.entries
        /\ \A j \in 1..Len(shape.entries) : shape.entries[j].anns = <<>>) =>
        /\ ListRead
        /\ ParametersRead = ParametersWritten(shape.entries)

\* C16: an entry without its name is dropped: the call succeeds and returns
\* the Parameters of the other entries, in order.  Stated for the lists whose
\* entries carry no @ token.
C16_NamelessEntryDropped ==
    (called \in {"parse_constructor", "parse_bean"} /\ shape.form = "params"
        /\ \A j \in 1..Len(shape.entries) : shape.entries[j].anns = <<>>) =>
        /\ ListRead
        /\ ParametersRead = ParametersWritten(NamedEntries(shape.entries))

\* What does hold of an entry without its name: it yields a Parameter with
\* the empty name.
NamelessEntryKept ==
    (called \in {"parse_constructor", "parse_bean"} /\ shape.form = "params"
        /\ \A j \in 1..Len(shape.entries) : shape.entries[j].anns = <<>>) =>
        /\ ListRead
        /\ ParametersRead = ParametersWritten(shape.entries)

\* C17: parse_bean returns a bean whose class is the return type of the
\* method in every case, and whose name is the string of the marker when the
\* marker carries a String value, and the name of the method otherwise.
C17_BeanNameAndType ==
    (called = "parse_bean" /\ shape.form = "bean") =>
        /\ result.st = "Ok"
        /\ result.out.class = shape.type
        /\ result.out.name = unwrap_or(shape.marker.override, shape.name)

C17_Witness ==
    /\ called = "parse_bean"
    /\ input = "@Bean(\"newName\")\n    private MyBean myBean(FooBean fooBean) { ... }"
    /\ result = Ok(") { ... }",
                   Bean("MyBean", "newName", <<Parameter("FooBean", "fooBean")>>))

-----------------------------------------------------------------------------
(* Properties of the graph of component scans.                             *)

\* The contains edges among the statements returned.
ContainsEdgesEmitted ==
    {result.out[k] : k \in {j \in 1..Len(result.out) :
                                contains(result.out[j], "[label=\"contains\"]")}}

\* One contains edge from each scan path to each record whose package
\* contains the path and whose kind is defined.
ContainsEdgesClaimed(sh) ==
    {edge_statement(sh.packages[k], RecordNames[j], "contains") :
        <<k, j>> \in {kj \in (1..Len(sh.packages)) \X (1..Len(sh.records)) :
                         /\ contains(sh.records[kj[2]].P, sh.packages[kj[1]])
                         /\ sh.records[kj[2]].K # <<>>}}

\* C19: the edges of a component scan hold, for each scan path, one contains
\* edge to every other record whose package contains the path and whose kind
\* is defined, and no contains edge to a record without kind.
C19_ContainsEdges ==
    (called = "edges" /\ shape.form = "scan") =>
        ContainsEdgesEmitted = ContainsEdgesClaimed(shape)

\* What does hold of the edges: there is one scans edge per scan path, and
\* every other statement is a contains edge.
ScansEdgesFirst ==
    (called = "edges" /\ shape.form = "scan") =>
        /\ Len(result.out) >= Len(shape.packages)
        /\ \A k \in 1..Len(shape.packages) :
               result.out[k] = edge_statement("App", shape.packages[k], "scans")
        /\ \A k \in (Len(shape.packages) + 1)..Len(result.out) :
               result.out[k] \in ContainsEdgesEmitted

-----------------------------------------------------------------------------
(* Properties of the three scans of the class body.                        *)

\* C21: parse_class records one autowire per occurrence of @Autowired after
\* the class name, in the order of the source: markers between @Autowired and
\* the type are skipped, a ";" behind the name is not required, and an
\* occurrence inside a parameter list is recorded as well.
C21_OneAutowirePerOccurrence ==
    /\ (called = "parse_class" /\ shape.form = "fields"
           /\ \A j \in 1..Len(shape.fields) : shape.fields[j].ok) =>
           /\ result.st = "Ok"
           /\ result.out.autowires =
                  [j \in 1..Len(shape.fields) |->
                      Autowired(shape.fields[j].class, shape.fields[j].name)]
    /\ (called = "parse_class" /\ shape.form = "test") =>
           /\ result.st = "Ok"
           /\ result.out.autowires =
                  <<Autowired("Foo", "foo"), Autowired("FooBean", "fooBean")>>

C21_Witness ==
    /\ called = "parse_class"
    /\ shape.form = "fields"
    /\ Len(shape.fields) = 2
    /\ shape.fields[1].text = "void set(@Autowired @NotNull Qux qux) {}"
    /\ shape.fields[2].text = "@Autowired @Lazy Baz baz"
    /\ result.st = "Ok"
    /\ result.out.autowires = <<Autowired("Qux", "qux"), Autowired("Baz", "baz")>>

\* The members of the given kind, in order.
RECURSIVE MembersOf(_, _)
MembersOf(members, kind) ==
    IF members = <<>> THEN <<>>
    ELSE (IF Head(members).kind = kind THEN <<Head(members)>> ELSE <<>>)
         \o MembersOf(Tail(members), kind)

\* The beans, the autowires and the constructor parameters the members
\* written stand for.
BeansWritten(members) ==
    [j \in 1..Len(MembersOf(members, "bean")) |->
        Bean(MembersOf(members, "bean")[j].class, MembersOf(members, "bean")[j].name,
             MembersOf(members, "bean")[j].parameters)]

AutowiresWritten(members) ==
    [j \in 1..Len(MembersOf(members, "field")) |->
        Autowired(MembersOf(members, "field")[j].class,
                  MembersOf(members, "field")[j].name)]

ConstructorWritten(members) ==
    IF MembersOf(members, "constructor") = <<>> THEN <<>>
    ELSE MembersOf(members, "constructor")[1].parameters

\* C22: the bean loop and the constructor search cover all of the text after
\* the class name, wherever the autowire loop stopped: every @Bean method
\* yields a bean and the constructor yields the parameters, before and after
\* the last @Autowired.
C22_ScansCoverWholeBody ==
    (called = "parse_class" /\ shape.form = "members") =>
        /\ result.st = "Ok"
        /\ result.out.bean_defs = BeansWritten(shape.members)
        /\ result.out.parameters = ConstructorWritten(shape.members)
        /\ result.out.autowires = AutowiresWritten(shape.members)

C22_Witness ==
    /\ called = "parse_class"
    /\ input = "package a.b.c; @Component public class Foo { "
               \o "Foo(Arg arg) {} @Bean Other other() { } @Autowired Bar bar; }"
    /\ result.st = "Ok"
    /\ result.out.bean_defs = <<Bean("Other", "other", <<>>)>>
    /\ result.out.parameters = <<Parameter("Arg", "arg")>>
    /\ result.out.autowires = <<Autowired("Bar", "bar")>>

\* C27: a field written with a visibility modifier, @Autowired private Bar
\* bar;, yields the autowire of class Bar named bar.
C27_ModifierNotTakenAsType ==
    (called = "parse_class" /\ shape.form = "modifier") =>
        /\ result.st = "Ok"
        /\ result.out.autowires = <<Autowired(shape.T, shape.f)>>

\* What does hold of such a field: the modifier is read as the class and the
\* type as the name.
ModifierReadAsClass ==
    (called = "parse_class" /\ shape.form = "modifier") =>
        /\ result.st = "Ok"
        /\ result.out.autowires = <<Autowired(shape.vis, shape.T)>>

\* The class carries SpringBootApplication and one ComponentScan that names
\* at least one path.
RootWithExplicitScan(anns) ==
    /\ PlacesOf(anns, "SpringBootApplication") # {}
    /\ Cardinality(PlacesOf(anns, "ComponentScan")) = 1
    /\ ScanPathsWritten(anns) # <<>>

\* C26: for a class with SpringBootApplication and a ComponentScan of explicit
\* paths the component scans are the explicit paths, in either order of the
\* two markers.
C26_ExplicitScanKept ==
    (called = "parse_class" /\ shape.form = "marked"
        /\ RootWithExplicitScan(shape.anns)) =>
        /\ result.st = "Ok"
        /\ result.out.component_scans = ScanPathsWritten(shape.anns)

\* What does hold of the two markers: the later one sets the component scans.
LaterMarkerSetsScans ==
    (called = "parse_class" /\ shape.form = "marked"
        /\ RootWithExplicitScan(shape.anns)) =>
        /\ result.st = "Ok"
        /\ result.out.component_scans =
               IF Max(PlacesOf(shape.anns, "ComponentScan"))
                      > Max(PlacesOf(shape.anns, "SpringBootApplication"))
               THEN ScanPathsWritten(shape.anns)
               ELSE <<shape.P>>

-----------------------------------------------------------------------------
(* Properties of the annotation scanner on runs and on blanks.              *)

\* C23: parse_annotations returns the annotations in the order of the source
\* and stops at the end of the input: when it succeeds the remainder holds no
\* "@", on an input without "@" it returns no annotation, and when an
\* annotation at an "@" is malformed it fails instead of returning a shortened
\* list.
C23_AllAnnotationsOrFailure ==
    called = "parse_annotations" =>
        /\ result.st = "Ok" => ~contains(result.rest, "@")
        /\ ~contains(input, "@") => result = Ok(input, <<>>)
        /\ shape.form = "run" =>
               IF HasMalformedAnnotation(shape.anns) THEN result.st # "Ok"
               ELSE /\ result.st = "Ok"
                    /\ [j \in 1..Len(result.out) |-> result.out[j].name]
                           = [j \in 1..Len(shape.anns) |-> shape.anns[j].name]

C23_Witness ==
    /\ called = "parse_annotations"
    /\ input = "public class Foo @Import(Bar.class) @Order(1) class Foo {}"
    /\ result.st = "Error"

\* C25: whitespace between the parentheses of an annotation and its value
\* does not change what parse_annotation decodes: @Import ( Something.class )
\* yields the Class Something, and @ComponentScan( "foo.bar.baz" ) with line
\* breaks yields the String foo.bar.baz.
C25_BlanksAroundValue ==
    (called = "parse_annotation" /\ shape.form = "spaced") =>
        result = Ok("", Annotation(shape.name, Single(shape.v)))

\* What does hold of blanks: C25 when none stands between the opening
\* parenthesis and the value.
BlanksElsewhere ==
    (called = "parse_annotation" /\ shape.form = "spaced" /\ shape.before = "") =>
        result = Ok("", Annotation(shape.name, Single(shape.v)))

-----------------------------------------------------------------------------
(* Properties of the run of main.                                          *)

\* The places of the log where an edge is printed, and where a file is read.
EdgePlaces == {k \in 1..Len(events) : events[k].op = "print"
                                         /\ contains(events[k].text, " -> ")}

ReadPlaces == {k \in 1..Len(events) : events[k].op = "read"}

\* The files the run selects.
FilesSelected == javafiles(input, shape.dir)

\* C24: the run has two phases: every selected file has been read before any
\* edge is printed, so no edge is printed while a file is still to be read,
\* and no file is read once an edge has been printed.
C24_TwoPhaseRun ==
    pc # "idle" =>
        \A k \in EdgePlaces :
            /\ \A j \in ReadPlaces : j < k
            /\ \A f \in 1..Len(FilesSelected) :
                   \E j \in ReadPlaces :
                       j < k /\ events[j].text = FilesSelected[f].path

\* What does hold of the run: the header is printed first, and a run that
\* ends has read every selected file and printed the closing brace last.
RunIsBracketed ==
    /\ pc \in {"loop", "done", "panicked"} => events[1] = println("digraph Components {")
    /\ pc = "done" =>
           /\ events[Len(events)] = println("}")
           /\ \A f \in 1..Len(FilesSelected) :
                  \E j \in ReadPlaces : events[j].text = FilesSelected[f].path

====
